---- MODULE Spec2Model ----
(***************************************************************************)
(* Model of src/sonarqube-etl/exporter.py: the SonarExporter background    *)
(* refresh thread (refresh_forever / refresh_once), the supported-key      *)
(* cache, the per-project gauges with their label-set bookkeeping, and the *)
(* upstream SonarQube state the thread polls.                              *)
(*                                                                         *)
(* Floats are the integers of the value domain; the Python values that are *)
(* not numbers are encoded as negative integers (NaN, None, Unparsable,    *)
(* NoSeries) so that every gauge cell has one type.  time.time() is the    *)
(* variable clock; it advances while the thread sleeps.                    *)
(***************************************************************************)
EXTENDS Integers, Sequences, FiniteSets, TLC

\* ---------------------------------------------------------------- encodings
NaN == -1          \* float("nan")
None == -2         \* Python None: a missing dict key, a JSON null
Unparsable == -3   \* a raw value float() raises ValueError on
NoSeries == -4     \* the gauge has no child for this label tuple

\* ---------------------------------------------------------------- constants
\* _METRIC_KEYS, abridged to one key that is only summed, one that is summed
\* and counted (> 0), and one that is not aggregated.
METRIC_KEYS == <<"ncloc", "bugs", "coverage">>
Metrics == {METRIC_KEYS[n] : n \in DOMAIN METRIC_KEYS}

\* The refresh interval, configured so that two intervals make one cache period.
PULL_INTERVAL_SECONDS == 1800
CachePeriod == 3600             \* supported keys are re-queried after 60 min
ProjectPageSize == 2            \* "ps" of /api/projects/search
MetricPageSize == 2             \* "ps" of /api/metrics/search
MaxCycles == 4                  \* refresh cycles explored
MaxFailures == 2                \* failed upstream requests explored

\* PROJECT_KEY_REGEX: the keys self._project_key_re.match accepts.
MatchedKeys == {"a", "b"}

\* ---------------------------------------------------------------- upstream
Comp(k, n) == [key |-> k, name |-> n]
Entry(m, v) == [metric |-> m, value |-> v]
MetricDef(k) == [key |-> k]

\* Answers of /api/projects/search (all pages concatenated).
Listings ==
  { <<>>,
    <<Comp("a", "Alpha"), Comp("b", "Beta")>>,
    <<Comp("a", "Alpha2"), Comp("b", "Beta")>>,
    <<Comp("b", "Beta")>>,
    <<Comp("a", "Alpha"), Comp("b", ""), Comp("z", "Zeta"), Comp("a", "Alpha")>> }

\* Answers of /api/metrics/search (all pages concatenated).
MetricCatalogs ==
  { <<>>,
    <<MetricDef("")>>,
    <<MetricDef("ncloc"), MetricDef("bugs"), MetricDef("coverage")>>,
    <<MetricDef("ncloc"), MetricDef("other")>>,
    <<MetricDef("other")>> }

\* What /api/measures/component knows of each project.  It answers for every
\* key asked for that it has an entry of, whatever the metric catalog lists.
TableA == [k \in MatchedKeys |->
             IF k = "a"
             THEN <<Entry("ncloc", 100), Entry("bugs", 2), Entry("coverage", 80)>>
             ELSE <<Entry("ncloc", 50), Entry("bugs", 0)>>]
TableB == [k \in MatchedKeys |->
             IF k = "a"
             THEN <<Entry("ncloc", Unparsable), Entry("bugs", 1), Entry("other", 2),
                    Entry("coverage", None)>>
             ELSE <<>>]
MeasureTables == {TableA, TableB}

Range(s) == {s[n] : n \in DOMAIN s}
LabelSpace ==
  {<<c.key, c.name>> :
     c \in {d \in UNION {Range(l) : l \in Listings} :
              d.key \in MatchedKeys /\ d.name # ""}}

\* The exception _request_json raises when a request of the path fails: the
\* project search is refused at the connection, the other two by status.
RequestErrors(path) ==
  IF path = "/api/projects/search"
  THEN {[type |-> "ConnectionError", status |-> None]}
  ELSE {[type |-> "HTTPError", status |-> 503]}

VARIABLES
  \* upstream SonarQube
  upProjects, upMetrics, upMeasures,
  clock,
  \* SonarExporter fields
  gauges,                    \* self._gauges: metric -> label tuple -> value
  agg,                       \* the sonar_global_* gauges
  known_labelsets,           \* self._known_labelsets
  project_key_to_name,       \* self._project_key_to_name ("" = no entry)
  supported_metric_keys,     \* self._supported_metric_keys ({} with fetched_at = None: unset)
  supported_metric_keys_fetched_at,
  up, last_error,            \* sonar_exporter_up, sonar_exporter_last_error
  last_success_unixtime,     \* sonar_exporter_last_success_unixtime
  last_error_message, last_success_time,
  \* the refresh thread: position and locals
  pc, page, projects, supported_keys, idx, measures, current_labels, tot, ok, err_msg,
  lock,                      \* self._lock: "free" or its holder
  \* the request handlers: health() and metrics()
  health_pc, scrape,
  \* history of the run, read only by the properties
  cycle, failures, listed, start, prev, fetched, asked, keys_call

upstreamVars == <<upProjects, upMetrics, upMeasures>>
storeVars == <<gauges, agg, known_labelsets, project_key_to_name>>
cacheVars == <<supported_metric_keys, supported_metric_keys_fetched_at>>
statusVars == <<up, last_error, last_success_unixtime, last_error_message, last_success_time>>
localVars == <<page, projects, supported_keys, idx, measures, current_labels, tot, ok, err_msg>>
histVars == <<cycle, failures, listed, start, prev, fetched, asked, keys_call>>
readerVars == <<health_pc, scrape>>
vars == <<upstreamVars, clock, storeVars, cacheVars, statusVars, pc, localVars, histVars,
          lock, readerVars>>

\* ---------------------------------------------------------------- helpers
Min(x, y) == IF x < y THEN x ELSE y
Max(x, y) == IF x > y THEN x ELSE y

\* The page p (1-based) of an upstream collection served ps entries a page.
PageOf(s, p, ps) == SubSeq(s, (p - 1) * ps + 1, Min(p * ps, Len(s)))

\* _format_error
FormatError(exc) ==
  IF exc.type = "HTTPError"
  THEN IF exc.status # None THEN <<"HTTPError", exc.status>> ELSE <<"HTTPError", None>>
  ELSE <<exc.type, None>>
NoError == <<"", None>>

\* _list_projects: the components of one page that are yielded.
YieldedOf(components) ==
  SelectSeq(components,
            LAMBDA c : c.key # "" /\ c.name # "" /\ c.key \in MatchedKeys)

\* The cache test with the age compared by <= : a set exactly CachePeriod old
\* would still be served.
CacheValid_AgeInclusive(now) ==
  /\ supported_metric_keys_fetched_at # None
  /\ (now - supported_metric_keys_fetched_at) <= CachePeriod

\* _get_supported_metric_keys: the cache test.
CacheValid(now) ==
  /\ supported_metric_keys_fetched_at # None
  /\ (now - supported_metric_keys_fetched_at) < CachePeriod

\* _get_supported_metric_keys: the keys of one page of metrics.
UsableKeys(metrics) == {m.key : m \in {d \in Range(metrics) : d.key # ""}}

\* _get_supported_metric_keys: the page loop, from page p on.
RECURSIVE CollectKeys(_)
CollectKeys(p) ==
  LET metrics == PageOf(upMetrics, p, MetricPageSize)
  IN  IF metrics = <<>> THEN {} ELSE UsableKeys(metrics) \cup CollectKeys(p + 1)

\* The negotiation without its fallback to the configured keys.
FallbackKeys_Dropped(keys) == keys

\* _get_supported_metric_keys: never an empty set.
FallbackKeys(keys) == IF keys = {} THEN Metrics ELSE keys

\* Every configured key asked for, supported or not.
Requested_AllConfigured(supported) == Metrics

\* _fetch_measures: the keys asked for.
Requested(supported) == {k \in Metrics : k \in supported}

\* _fetch_measures: what the upstream answers for project_key.
Response(project_key, requested) ==
  SelectSeq(upMeasures[project_key], LAMBDA e : e.metric \in requested)

NoMeasures == [k \in Metrics |-> None]

\* _fetch_measures: the loop over the measures of the answer.
RECURSIVE ParseMeasures(_, _)
ParseMeasures(ms, out) ==
  IF ms = <<>> THEN out
  ELSE LET m == Head(ms)
       IN  ParseMeasures(Tail(ms),
             IF m.metric \in Metrics /\ m.value # None /\ m.value # Unparsable
             THEN [out EXCEPT ![m.metric] = m.value]
             ELSE out)

\* A missing value defaulted to zero instead of NaN.
GaugeValue_DefaultsToZero(value) == IF value = None THEN 0 ELSE value

\* refresh_once: the value a per-project gauge is set to.
GaugeValue(value) == IF value = None THEN NaN ELSE value

\* refresh_once: float(measures.get(k) or 0.0)
OrZero(value) == IF value = None \/ value = 0 THEN 0 ELSE value

\* The counter stepped for a value >= 0 instead of > 0.
CountIfPositive_CountsZero(v) == IF v >= 0 THEN 1 ELSE 0

\* refresh_once: the per-project counter steps.
CountIfPositive(v) == IF v > 0 THEN 1 ELSE 0

\* The removal stopping after the first configured metric.
RemoveAll_FirstMetric(g, label) ==
  [k \in Metrics |->
     IF k = METRIC_KEYS[1] THEN [g[k] EXCEPT ![label] = NoSeries] ELSE g[k]]

\* Gauge.remove(key, name) for every metric; a missing child is a KeyError, passed.
RemoveAll(g, label) == [k \in Metrics |-> [g[k] EXCEPT ![label] = NoSeries]]

\* Every known label tuple taken as stale, the current ones included.
Stale_AllKnown(metric_key) == known_labelsets[metric_key]

\* refresh_once: the stale label tuples of one metric.
Stale(metric_key) == known_labelsets[metric_key] \ current_labels[metric_key]

NoTotals == [projects |-> 0, ncloc |-> 0, bugs |-> 0, bugs_gt0 |-> 0]

Snapshot ==
  [gauges |-> gauges, agg |-> agg, known_labelsets |-> known_labelsets,
   project_key_to_name |-> project_key_to_name,
   supported_metric_keys |-> supported_metric_keys,
   supported_metric_keys_fetched_at |-> supported_metric_keys_fetched_at,
   last_error_message |-> last_error_message,
   last_success_time |-> last_success_time]

\* _fetch_measures: the request sent for one project, or none.
NoRequest == [sent |-> FALSE, keys |-> {}]
RequestOf(requested) ==
  IF requested = {} THEN NoRequest ELSE [sent |-> TRUE, keys |-> requested]

\* metrics(): nothing read yet.
NoScrape == [pc |-> "idle", up |-> 0, last_error |-> 0, after_first |-> FALSE]

\* ---------------------------------------------------------------- Init
Init ==
  /\ upProjects = <<Comp("a", "Alpha"), Comp("b", "Beta")>>
  /\ upMetrics = <<MetricDef("ncloc"), MetricDef("bugs"), MetricDef("coverage")>>
  /\ upMeasures = TableA
  /\ clock = 0
  /\ gauges = [k \in Metrics |-> [l \in LabelSpace |-> NoSeries]]
  /\ agg = NoTotals
  /\ known_labelsets = [k \in Metrics |-> {}]
  /\ project_key_to_name = [k \in MatchedKeys |-> ""]
  /\ supported_metric_keys = {}
  /\ supported_metric_keys_fetched_at = None
  /\ up = 0 /\ last_error = 0 /\ last_success_unixtime = 0
  /\ last_error_message = NoError
  /\ last_success_time = None
  /\ pc = "list" /\ page = 1 /\ projects = <<>> /\ supported_keys = {} /\ idx = 1
  /\ measures = NoMeasures
  /\ current_labels = [k \in Metrics |-> {}]
  /\ tot = NoTotals
  /\ ok = FALSE /\ err_msg = NoError
  /\ lock = "free" /\ health_pc = "idle" /\ scrape = NoScrape
  /\ cycle = 1 /\ failures = 0 /\ listed = FALSE /\ fetched = <<>> /\ keys_call = "none"
  /\ asked = <<>>
  /\ start = [gauges |-> [k \in Metrics |-> [l \in LabelSpace |-> NoSeries]],
              agg |-> NoTotals,
              known_labelsets |-> [k \in Metrics |-> {}],
              project_key_to_name |-> [k \in MatchedKeys |-> ""],
              supported_metric_keys |-> {},
              supported_metric_keys_fetched_at |-> None,
              last_error_message |-> NoError,
              last_success_time |-> None]
  /\ prev = [ran |-> FALSE, listed |-> FALSE, projects |-> <<>>, ok |-> FALSE,
             supported_keys |-> {}, upstream_changed |-> FALSE, succeeded |-> FALSE]

\* ---------------------------------------------------------------- the refresh thread
\* An exception of refresh_once that leaves the loop: the thread ends.
Raise_Escapes(exc) ==
  /\ failures < MaxFailures
  /\ failures' = failures + 1
  /\ pc' = "ended"
  /\ ok' = FALSE
  /\ err_msg' = FormatError(exc)

\* refresh_forever: an exception of refresh_once is caught and formatted.
Raise(exc) ==
  /\ failures < MaxFailures
  /\ failures' = failures + 1
  /\ pc' = "status"
  /\ ok' = FALSE
  /\ err_msg' = FormatError(exc)

\* _list_projects, one page: the request succeeds.
ListPage ==
  /\ pc = "list"
  /\ LET components == PageOf(upProjects, page, ProjectPageSize)
     IN  IF components = <<>>
         THEN /\ pc' = "keys"
              /\ listed' = TRUE
              /\ UNCHANGED <<page, projects>>
         ELSE /\ projects' = projects \o YieldedOf(components)
              /\ page' = page + 1
              /\ UNCHANGED <<pc, listed>>
  /\ UNCHANGED <<lock, readerVars, upstreamVars, clock, storeVars, cacheVars, statusVars,
                 supported_keys, idx, measures, current_labels, tot, ok, err_msg,
                 cycle, failures, start, prev, fetched, asked, keys_call>>

\* A failed page request taken as the end of the listing: the pages had so far
\* are processed.
ListPageFails_KeepsPages(exc) ==
  /\ pc = "list"
  /\ failures < MaxFailures
  /\ failures' = failures + 1
  /\ pc' = "keys"
  /\ UNCHANGED <<lock, readerVars, upstreamVars, clock, storeVars, cacheVars, statusVars,
                 localVars, cycle, listed, start, prev, fetched, asked, keys_call>>

\* _list_projects, one page: the request fails.
ListPageFails(exc) ==
  /\ pc = "list"
  /\ Raise(exc)
  /\ UNCHANGED <<lock, readerVars, upstreamVars, clock, storeVars, cacheVars, statusVars,
                 page, projects, supported_keys, idx, measures, current_labels, tot,
                 cycle, listed, start, prev, fetched, asked, keys_call>>

\* refresh_once after supported_keys is known: the locals of the project loop.
EnterLoop ==
  /\ idx' = 1
  /\ current_labels' = [k \in Metrics |-> {}]
  /\ tot' = NoTotals
  /\ pc' = IF projects = <<>> THEN "publish" ELSE "rename"

\* _get_supported_metric_keys: the cached set is returned.
SupportedKeysCached ==
  /\ pc = "keys"
  /\ CacheValid(clock)
  /\ supported_keys' = supported_metric_keys
  /\ keys_call' = "cached"
  /\ EnterLoop
  /\ UNCHANGED <<lock, readerVars, upstreamVars, clock, storeVars, cacheVars, statusVars,
                 page, projects, measures, ok, err_msg,
                 cycle, failures, listed, start, prev, fetched, asked>>

\* _get_supported_metric_keys: the metric catalog is queried, every page answers.
SupportedKeysQueried ==
  /\ pc = "keys"
  /\ ~CacheValid(clock)
  /\ LET keys == FallbackKeys(CollectKeys(1))
     IN  /\ supported_metric_keys' = keys
         /\ supported_metric_keys_fetched_at' = clock
         /\ supported_keys' = keys
  /\ keys_call' = "queried"
  /\ EnterLoop
  /\ UNCHANGED <<lock, readerVars, upstreamVars, clock, storeVars, statusVars,
                 page, projects, measures, ok, err_msg,
                 cycle, failures, listed, start, prev, fetched, asked>>

\* _get_supported_metric_keys: a page request of the metric catalog fails.
SupportedKeysFails(exc) ==
  /\ pc = "keys"
  /\ ~CacheValid(clock)
  /\ Raise(exc)
  /\ keys_call' = "failed"
  /\ UNCHANGED <<lock, readerVars, upstreamVars, clock, storeVars, cacheVars, statusVars,
                 page, projects, supported_keys, idx, measures, current_labels, tot,
                 cycle, listed, start, prev, fetched, asked>>

\* refresh_once: the rename check of projects[idx].
Rename ==
  /\ pc = "rename"
  /\ LET key == projects[idx].key
         name == projects[idx].name
         prev_name == project_key_to_name[key]
     IN  /\ gauges' = IF prev_name # "" /\ prev_name # name
                      THEN RemoveAll(gauges, <<key, prev_name>>)
                      ELSE gauges
         /\ project_key_to_name' = [project_key_to_name EXCEPT ![key] = name]
  /\ pc' = "fetch"
  /\ UNCHANGED <<lock, readerVars, upstreamVars, clock, agg, known_labelsets, cacheVars, statusVars,
                 localVars, histVars>>

\* _fetch_measures for projects[idx]: nothing to ask for, or the request succeeds.
FetchMeasures ==
  /\ pc = "fetch"
  /\ LET requested == Requested(supported_keys)
     IN  measures' = IF requested = {}
                     THEN NoMeasures
                     ELSE ParseMeasures(Response(projects[idx].key, requested), NoMeasures)
  /\ fetched' = Append(fetched, measures')
  /\ asked' = Append(asked, RequestOf(Requested(supported_keys)))
  /\ pc' = "write"
  /\ UNCHANGED <<lock, readerVars, upstreamVars, clock, storeVars, cacheVars, statusVars,
                 page, projects, supported_keys, idx, current_labels, tot, ok, err_msg,
                 cycle, failures, listed, start, prev, keys_call>>

\* _fetch_measures for projects[idx]: the request fails.
FetchMeasuresFails(exc) ==
  /\ pc = "fetch"
  /\ Requested(supported_keys) # {}
  /\ Raise(exc)
  /\ asked' = Append(asked, RequestOf(Requested(supported_keys)))
  /\ UNCHANGED <<lock, readerVars, upstreamVars, clock, storeVars, cacheVars, statusVars,
                 page, projects, supported_keys, idx, measures, current_labels, tot,
                 cycle, listed, start, prev, fetched, keys_call>>

\* The aggregates published inside the project loop, after each project.
WriteProject_PublishesTotals ==
  /\ pc = "write"
  /\ LET labels == <<projects[idx].key, projects[idx].name>>
         bugs_v == OrZero(measures["bugs"])
     IN  /\ gauges' = [k \in Metrics |->
                         [gauges[k] EXCEPT ![labels] = GaugeValue(measures[k])]]
         /\ current_labels' = [k \in Metrics |-> current_labels[k] \cup {labels}]
         /\ tot' = [projects |-> tot.projects + 1,
                    ncloc |-> tot.ncloc + OrZero(measures["ncloc"]),
                    bugs |-> tot.bugs + bugs_v,
                    bugs_gt0 |-> tot.bugs_gt0 + CountIfPositive(bugs_v)]
  /\ agg' = tot'
  /\ idx' = idx + 1
  /\ pc' = IF idx + 1 > Len(projects) THEN "publish" ELSE "rename"
  /\ UNCHANGED <<lock, readerVars, upstreamVars, clock, known_labelsets, project_key_to_name,
                 cacheVars, statusVars,
                 page, projects, supported_keys, measures, ok, err_msg, histVars>>

\* refresh_once: the gauges of projects[idx] are set and the totals stepped.
WriteProject ==
  /\ pc = "write"
  /\ LET labels == <<projects[idx].key, projects[idx].name>>
         bugs_v == OrZero(measures["bugs"])
     IN  /\ gauges' = [k \in Metrics |->
                         [gauges[k] EXCEPT ![labels] = GaugeValue(measures[k])]]
         /\ current_labels' = [k \in Metrics |-> current_labels[k] \cup {labels}]
         /\ tot' = [projects |-> tot.projects + 1,
                    ncloc |-> tot.ncloc + OrZero(measures["ncloc"]),
                    bugs |-> tot.bugs + bugs_v,
                    bugs_gt0 |-> tot.bugs_gt0 + CountIfPositive(bugs_v)]
  /\ idx' = idx + 1
  /\ pc' = IF idx + 1 > Len(projects) THEN "publish" ELSE "rename"
  /\ UNCHANGED <<lock, readerVars, upstreamVars, clock, agg, known_labelsets, project_key_to_name,
                 cacheVars, statusVars,
                 page, projects, supported_keys, measures, ok, err_msg, histVars>>

\* refresh_once: the global aggregates are published.
Publish ==
  /\ pc = "publish"
  /\ agg' = tot
  /\ pc' = "reconcile"
  /\ UNCHANGED <<lock, readerVars, upstreamVars, clock, gauges, known_labelsets, project_key_to_name,
                 cacheVars, statusVars, localVars, histVars>>

\* refresh_once: stale label tuples are removed, the known label sets replaced.
Reconcile ==
  /\ pc = "reconcile"
  /\ gauges' = [k \in Metrics |->
                  [l \in LabelSpace |->
                     IF l \in Stale(k) THEN NoSeries ELSE gauges[k][l]]]
  /\ known_labelsets' = current_labels
  /\ pc' = "cleanup"
  /\ UNCHANGED <<lock, readerVars, upstreamVars, clock, agg, project_key_to_name,
                 cacheVars, statusVars, localVars, histVars>>

\* refresh_once: key -> name entries of absent projects are dropped; it returns.
Cleanup ==
  /\ pc = "cleanup"
  /\ LET current_keys == {p.key : p \in Range(projects)}
     IN  project_key_to_name' =
           [k \in MatchedKeys |->
              IF k \in current_keys THEN project_key_to_name[k] ELSE ""]
  /\ pc' = "status"
  /\ ok' = TRUE
  /\ UNCHANGED <<lock, readerVars, upstreamVars, clock, gauges, agg, known_labelsets,
                 cacheVars, statusVars,
                 page, projects, supported_keys, idx, measures, current_labels, tot,
                 err_msg, histVars>>

\* refresh_forever: the values the status block writes for the outcome ok.
UpValue(outcome) == IF outcome THEN 1 ELSE 0

\* The error flag raised whatever the outcome.
LastErrorValue_Stuck(outcome) == 1

LastErrorValue(outcome) == IF outcome THEN 0 ELSE 1

\* refresh_forever: "with self._lock:" is entered once the lock is free, and
\* self._up is set.  No handler tells the lock taken from the flag written, so
\* the two are one step.
SetUp ==
  /\ pc = "status"
  /\ lock = "free"
  /\ lock' = "refresh"
  /\ up' = UpValue(ok)
  /\ pc' = "set_last_error"
  /\ UNCHANGED <<readerVars, upstreamVars, clock, storeVars, cacheVars,
                 last_error, last_success_unixtime, last_error_message, last_success_time,
                 localVars, histVars>>

\* refresh_forever: self._last_error is set; after a success now = time.time()
\* is recorded as the time of the last success, in the gauge and in the field.
SetLastError ==
  /\ pc = "set_last_error"
  /\ last_error' = LastErrorValue(ok)
  /\ IF ok
     THEN /\ last_success_unixtime' = clock
          /\ last_success_time' = clock
     ELSE UNCHANGED <<last_success_unixtime, last_success_time>>
  /\ pc' = "set_error_message"
  /\ UNCHANGED <<lock, readerVars, upstreamVars, clock, storeVars, cacheVars,
                 up, last_error_message, localVars, histVars>>

\* refresh_forever: self._last_error_message = None or err_msg; the with block
\* is left.
SetLastErrorMessage ==
  /\ pc = "set_error_message"
  /\ last_error_message' = IF ok THEN NoError ELSE err_msg
  /\ lock' = "free"
  /\ pc' = "sleep"
  /\ UNCHANGED <<readerVars, upstreamVars, clock, storeVars, cacheVars,
                 up, last_error, last_success_unixtime, last_success_time,
                 localVars, histVars>>

\* refresh_forever: time.sleep, then the next iteration starts.  While the thread
\* sleeps the upstream may change in one respect.
Sleep(newProjects, newMetrics, newMeasures) ==
  /\ pc = "sleep"
  /\ cycle < MaxCycles
  /\ Cardinality({n \in 1..3 :
        <<newProjects, newMetrics, newMeasures>>[n] # upstreamVars[n]}) <= 1
  /\ upProjects' = newProjects
  /\ upMetrics' = newMetrics
  /\ upMeasures' = newMeasures
  /\ clock' = clock + Max(1, PULL_INTERVAL_SECONDS)
  /\ pc' = "list" /\ page' = 1 /\ projects' = <<>>
  /\ ok' = FALSE /\ err_msg' = NoError
  /\ cycle' = cycle + 1
  /\ listed' = FALSE
  /\ fetched' = <<>>
  /\ asked' = <<>>
  /\ keys_call' = "none"
  /\ start' = Snapshot
  /\ prev' = [ran |-> TRUE, listed |-> listed,
              projects |-> IF listed THEN projects ELSE <<>>,
              ok |-> ok,
              supported_keys |-> IF ok THEN supported_keys ELSE {},
              upstream_changed |-> <<newProjects, newMetrics, newMeasures>> # upstreamVars,
              succeeded |-> prev.succeeded \/ ok]
  /\ UNCHANGED <<lock, readerVars, storeVars, cacheVars, statusVars,
                 supported_keys, idx, measures, current_labels, tot, failures>>

\* ---------------------------------------------------------------- the request handlers
\* health() reading the two fields without taking the lock.
HealthEnter_NoLock ==
  /\ health_pc = "idle"
  /\ health_pc' = "reading"
  /\ UNCHANGED <<lock, scrape, upstreamVars, clock, storeVars, cacheVars, statusVars, pc,
                 localVars, histVars>>

\* health(): "with self._lock:" is entered once the lock is free; the two fields
\* are read while it is held.
HealthEnter ==
  /\ health_pc = "idle"
  /\ lock = "free"
  /\ lock' = "health"
  /\ health_pc' = "reading"
  /\ UNCHANGED <<scrape, upstreamVars, clock, storeVars, cacheVars, statusVars, pc,
                 localVars, histVars>>

\* health(): the with block is left and the payload returned.
HealthReturn ==
  /\ health_pc = "reading"
  /\ health_pc' = "idle"
  /\ lock' = IF lock = "health" THEN "free" ELSE lock
  /\ UNCHANGED <<scrape, upstreamVars, clock, storeVars, cacheVars, statusVars, pc,
                 localVars, histVars>>

\* health(): the payload built from the two fields.
HealthPayload == <<last_error_message, last_success_time>>

\* metrics(): generate_latest reads the collectors in the order they were
\* registered, without self._lock; sonar_exporter_up comes first.
ScrapeUp ==
  /\ scrape.pc = "idle"
  /\ scrape' = [pc |-> "up_read", up |-> up, last_error |-> 0,
                after_first |-> (cycle > 1 \/ pc = "sleep")]
  /\ UNCHANGED <<lock, health_pc, upstreamVars, clock, storeVars, cacheVars, statusVars, pc,
                 localVars, histVars>>

\* metrics(): sonar_exporter_last_error is read later in the same pass.
ScrapeLastError ==
  /\ scrape.pc = "up_read"
  /\ scrape' = [scrape EXCEPT !.pc = "done", !.last_error = last_error]
  /\ UNCHANGED <<lock, health_pc, upstreamVars, clock, storeVars, cacheVars, statusVars, pc,
                 localVars, histVars>>

\* metrics(): the response is returned.
ScrapeReturn ==
  /\ scrape.pc = "done"
  /\ scrape' = NoScrape
  /\ UNCHANGED <<lock, health_pc, upstreamVars, clock, storeVars, cacheVars, statusVars, pc,
                 localVars, histVars>>

\* ---------------------------------------------------------------- specifications
\* The refresh thread.
Refresh ==
  \/ ListPage
  \/ \E exc \in RequestErrors("/api/projects/search") : ListPageFails(exc)
  \/ SupportedKeysCached
  \/ SupportedKeysQueried
  \/ \E exc \in RequestErrors("/api/metrics/search") : SupportedKeysFails(exc)
  \/ Rename
  \/ FetchMeasures
  \/ \E exc \in RequestErrors("/api/measures/component") : FetchMeasuresFails(exc)
  \/ WriteProject
  \/ Publish
  \/ Reconcile
  \/ Cleanup
  \/ SetUp
  \/ SetLastError
  \/ SetLastErrorMessage

\* The refresh thread against an upstream that changes between cycles.
Next ==
  \/ Refresh
  \/ \E np \in Listings, nm \in MetricCatalogs, nt \in MeasureTables : Sleep(np, nm, nt)

Spec == Init /\ [][Next]_vars

\* The refresh thread against an upstream that stays as it is.
SleepQuiet == Sleep(upProjects, upMetrics, upMeasures)

NextQuiet ==
  \/ Refresh
  \/ SleepQuiet

\* Every step of the thread that can be taken is eventually taken: the thread
\* is a daemon thread of its own, and every upstream call returns or fails.
FairSpec == Init /\ [][NextQuiet]_vars /\ WF_vars(NextQuiet)

\* The refresh thread with the request handlers of the Flask app (threaded).
NextServed ==
  \/ NextQuiet
  \/ HealthEnter
  \/ HealthReturn
  \/ ScrapeUp
  \/ ScrapeLastError
  \/ ScrapeReturn

ServedSpec == Init /\ [][NextServed]_vars

\* ---------------------------------------------------------------- properties
\* The status of the cycle has been recorded and the thread sleeps.
CycleDone == pc = "sleep"
CycleSucceeded == pc = "sleep" /\ ok
CycleFailed == pc = "sleep" /\ ~ok

LabelOf(p) == <<p.key, p.name>>
KeysOf(ps) == {p.key : p \in Range(ps)}
SeriesOf(metric_key) == {l \in LabelSpace : gauges[metric_key][l] # NoSeries}

\* C1: a failed cycle leaves every per-project series as it was when the cycle
\* started: none added, none removed, none changed.
C1_FailedCycleLeavesStore == CycleFailed => gauges = start.gauges

\* C2: after a successful cycle the series of every metric are exactly the
\* (key, name) tuples of the cycle's catalog.
C2_SeriesAreTheCatalog ==
  CycleSucceeded =>
    \A k \in Metrics : SeriesOf(k) = {LabelOf(p) : p \in Range(projects)}

\* C3: a key listed by the previous cycle and not by this one has no series
\* left once this cycle has completed.
C3_RemovedWithinOneCycle ==
  (CycleSucceeded /\ prev.listed) =>
    \A key \in KeysOf(prev.projects) \ KeysOf(projects) :
      \A k \in Metrics : \A l \in SeriesOf(k) : l[1] # key

\* C4: a key listed as (k, A) by the previous cycle and as (k, B), B # A, by
\* this successful one has no (k, A) series and has a (k, B) series with this
\* cycle's value (NaN when none was fetched), for every metric.
C4_RenameReplacesSeries ==
  (CycleSucceeded /\ prev.listed) =>
    \A p \in Range(prev.projects) : \A j \in DOMAIN projects :
      (projects[j].key = p.key /\ projects[j].name # p.name) =>
        \A k \in Metrics :
          /\ gauges[k][LabelOf(p)] = NoSeries
          /\ gauges[k][LabelOf(projects[j])] =
               (IF fetched[j][k] = None THEN NaN ELSE fetched[j][k])

\* The sum, over the first j projects of the cycle, of the value fetched for
\* metric_key, an absent value counted as nothing.
RECURSIVE SumFetched(_, _)
SumFetched(metric_key, j) ==
  IF j = 0 THEN 0
  ELSE SumFetched(metric_key, j - 1)
         + (IF fetched[j][metric_key] = None THEN 0 ELSE fetched[j][metric_key])

\* C5: after a successful cycle every fleet total is the sum of the values
\* fetched in the cycle (absent as 0), the project total is the length of the
\* catalog, and the "bugs > 0" counter counts the projects with a value > 0.
C5_AggregatesAreSums ==
  CycleSucceeded =>
    /\ Len(fetched) = Len(projects)
    /\ agg.projects = Len(projects)
    /\ agg.ncloc = SumFetched("ncloc", Len(projects))
    /\ agg.bugs = SumFetched("bugs", Len(projects))
    /\ agg.bugs_gt0 =
         Cardinality({j \in DOMAIN projects :
                        fetched[j]["bugs"] # None /\ fetched[j]["bugs"] > 0})

\* Scenario A: a/Alpha ncloc = 100 bugs = 2, b/Beta ncloc = 50 bugs = 0.
C5_Witness ==
  /\ CycleSucceeded
  /\ projects = <<Comp("a", "Alpha"), Comp("b", "Beta")>>
  /\ agg = [projects |-> 2, ncloc |-> 150, bugs |-> 2, bugs_gt0 |-> 1]

\* C6: when the cache has expired and the metric catalog answers with no
\* entry, the previously cached non-empty set is returned and stays cached.
C6_EmptyCatalogKeepsCache ==
  (/\ keys_call = "queried"
   /\ UsableKeys(upMetrics) = {}
   /\ start.supported_metric_keys_fetched_at # None)
  => /\ supported_keys = start.supported_metric_keys
     /\ supported_metric_keys = start.supported_metric_keys

C8_SupportedKeysNeverEmpty ==
  /\ supported_metric_keys_fetched_at # None => supported_metric_keys # {}
  /\ keys_call \in {"cached", "queried"} => supported_keys # {}

\* The catalog held only entries without a usable key.
C8_Witness ==
  /\ keys_call = "queried"
  /\ upMetrics = <<MetricDef("")>>
  /\ supported_keys = Metrics

\* C9 as stated: a successful cycle after a successful cycle, the upstream
\* unchanged in between, leaves series and aggregates as the first left them.
C9_Idempotent ==
  (CycleSucceeded /\ prev.ran /\ prev.ok /\ ~prev.upstream_changed) =>
    /\ gauges = start.gauges
    /\ agg = start.agg

\* C9, amended: the same, when both cycles used the same supported-key set.
C9_IdempotentSameKeys ==
  (/\ CycleSucceeded /\ prev.ran /\ prev.ok /\ ~prev.upstream_changed
   /\ supported_keys = prev.supported_keys) =>
    /\ gauges = start.gauges
    /\ agg = start.agg

C9_Witness ==
  /\ CycleSucceeded /\ prev.ran /\ prev.ok /\ ~prev.upstream_changed
  /\ supported_keys = prev.supported_keys
  /\ Len(projects) = 2
  /\ \A k \in Metrics : SeriesOf(k) # {}

\* The sum of the values fetched for metric_key over the projects (positions
\* of the catalog) in S, all of which have a value.
RECURSIVE SumOfValues(_, _)
SumOfValues(metric_key, S) ==
  IF S = {} THEN 0
  ELSE LET j == CHOOSE x \in S : TRUE
       IN  fetched[j][metric_key] + SumOfValues(metric_key, S \ {j})

\* The projects of the cycle a value was fetched for.
Having(metric_key) == {j \in DOMAIN projects : fetched[j][metric_key] # None}

\* C10: after a successful cycle, a metric no value was fetched for has a
\* series holding NaN (not 0) for that project, and the projects without a
\* value add nothing to a fleet total or to the "> 0" counter: these are the
\* total and the count over the projects that have a value.
C10_AbsentIsNaN ==
  CycleSucceeded =>
    /\ \A j \in DOMAIN projects : \A k \in Metrics :
         fetched[j][k] = None =>
           /\ gauges[k][LabelOf(projects[j])] = NaN
           /\ gauges[k][LabelOf(projects[j])] # 0
    /\ agg.ncloc = SumOfValues("ncloc", Having("ncloc"))
    /\ agg.bugs = SumOfValues("bugs", Having("bugs"))
    /\ agg.bugs_gt0 = Cardinality({j \in Having("bugs") : fetched[j]["bugs"] > 0})

\* Scenario C: the measures call of one project returned no measure at all.
C10_Witness ==
  /\ CycleSucceeded
  /\ Len(projects) = 2
  /\ \E j \in DOMAIN projects :
       /\ \A k \in Metrics : fetched[j][k] = None
       /\ \A k \in Metrics : gauges[k][LabelOf(projects[j])] = NaN
  /\ agg.bugs = 1

\* ---------------------------------------------------------------- refresh status
\* Some cycle, the one that has just finished included, has succeeded.
EverSucceeded == prev.succeeded \/ CycleSucceeded

\* The classifications _format_error can produce for the errors of the upstream.
Classifications ==
  {FormatError(exc) : exc \in RequestErrors("/api/projects/search")
                           \cup RequestErrors("/api/metrics/search")
                           \cup RequestErrors("/api/measures/component")}

\* C11: after a failed cycle up is 0, the error flag 1, last_error the error's
\* classification and last_success_time what it was before the cycle; after a
\* successful cycle up is 1, the error flag 0, last_error null and
\* last_success_time the time the cycle finished.  Outside the status update
\* last_success_time is null exactly when no cycle has succeeded, and it is
\* never below what it was when the cycle started.
C11_StatusTracksOutcome ==
  /\ CycleFailed =>
       /\ up = 0 /\ last_error = 1
       /\ last_error_message = err_msg
       /\ last_error_message \in Classifications
       /\ last_success_time = start.last_success_time
  /\ CycleSucceeded =>
       /\ up = 1 /\ last_error = 0
       /\ last_error_message = NoError
       /\ last_success_time = clock
  /\ pc \notin {"set_last_error", "set_error_message"} =>
       (last_success_time = None <=> ~EverSucceeded)
  /\ start.last_success_time # None =>
       /\ last_success_time # None
       /\ last_success_time >= start.last_success_time

\* A cycle fails after an earlier one succeeded: the time of that success stays.
C11_Witness ==
  /\ CycleFailed
  /\ prev.succeeded
  /\ last_success_time # None /\ last_success_time < clock
  /\ up = 0 /\ last_error = 1

\* ---------------------------------------------------------------- the loop goes on
\* C12: whatever the outcome of a cycle, its status is recorded and the thread
\* reaches its sleep; from the sleep the next cycle begins (up to the cycles
\* explored), exactly max(1, interval) seconds later, and a cycle begins only
\* from the sleep that ends the one before it: one cycle at a time.
C12_NextCycleBegins ==
  /\ (pc # "sleep") ~> (pc = "sleep")
  /\ \A c \in 1..(MaxCycles - 1) :
       (cycle = c /\ pc = "sleep") ~> (cycle = c + 1 /\ pc = "list")
  /\ [][cycle' # cycle =>
          /\ pc = "sleep" /\ pc' = "list"
          /\ cycle' = cycle + 1
          /\ up = UpValue(ok) /\ last_error = LastErrorValue(ok)
          /\ clock' - clock >= 1
          /\ PULL_INTERVAL_SECONDS >= 1 => clock' - clock = PULL_INTERVAL_SECONDS]_vars

\* A cycle begins after one that failed.
C12_Witness ==
  /\ pc = "list"
  /\ prev.ran /\ ~prev.ok
  /\ cycle > 1
  /\ last_error = 1

\* ---------------------------------------------------------------- the measures request
\* The configured keys the supported set of the cycle allows.
UsableMetrics == Metrics \cap supported_keys

\* C13: every measures request of the cycle asks only for keys that are both
\* configured and supported; with none such no request is sent for any project
\* and the measures of each are empty, and the cycle, once the listing and the
\* supported keys are had, succeeds with every series of its projects NaN.
C13_OnlyUsableKeysAsked ==
  /\ \A j \in DOMAIN asked :
       /\ asked[j].sent => (asked[j].keys # {} /\ asked[j].keys \subseteq UsableMetrics)
       /\ UsableMetrics = {} => ~asked[j].sent
       /\ (UsableMetrics = {} /\ j \in DOMAIN fetched) => fetched[j] = NoMeasures
  /\ (CycleDone /\ listed /\ keys_call \in {"cached", "queried"} /\ UsableMetrics = {}) =>
       /\ ok
       /\ Len(asked) = Len(projects)
       /\ \A p \in Range(projects), k \in Metrics : gauges[k][LabelOf(p)] = NaN

\* A cycle over two projects succeeds without a single measures request.
C13_Witness ==
  /\ CycleSucceeded
  /\ UsableMetrics = {}
  /\ Len(projects) >= 2
  /\ Len(asked) = Len(projects)
  /\ \A j \in DOMAIN asked : ~asked[j].sent
  /\ \A p \in Range(projects), k \in Metrics : gauges[k][LabelOf(p)] = NaN

\* ---------------------------------------------------------------- the listing
\* C14: once a page request of the listing has failed, on whichever page, the
\* cycle fails: no project of the pages already had is processed, and no series,
\* aggregate, known label set or key -> name entry differs from the start of
\* the cycle.
C14_FailedListingProcessesNothing ==
  (pc # "list" /\ ~listed) =>
    /\ ~ok
    /\ keys_call = "none" /\ asked = <<>> /\ fetched = <<>>
    /\ gauges = start.gauges
    /\ agg = start.agg
    /\ known_labelsets = start.known_labelsets
    /\ project_key_to_name = start.project_key_to_name
    /\ CycleDone => (up = 0 /\ last_error = 1)

\* The listing fails on its second page, over a store a cycle has filled.
C14_Witness ==
  /\ CycleFailed /\ ~listed
  /\ page = 2 /\ projects # <<>>
  /\ prev.ok
  /\ \E l \in LabelSpace : gauges["ncloc"][l] # NoSeries

\* C15: the projects listed for a cycle hold each project key at most once.
C15_ListedKeysDistinct ==
  listed =>
    \A i, j \in DOMAIN projects : i # j => projects[i].key # projects[j].key

\* ---------------------------------------------------------------- one name per key
\* C16: in every state, those within a cycle and those after a failed cycle
\* included, no metric holds two series of one project key under different names.
C16_OneNamePerKey ==
  \A k \in Metrics : \A l1, l2 \in SeriesOf(k) : l1[1] = l2[1] => l1 = l2

\* ---------------------------------------------------------------- publication
\* The positions of refresh_once from the publication of the aggregates on, and
\* those of the status block.
AfterLoop == {"publish", "reconcile", "cleanup"}
StatusBlock == {"status", "set_last_error", "set_error_message"}

\* C17: the aggregates are published and the label sets reconciled only when
\* the measures of every listed project have been fetched; an aggregate or a
\* known label set differs from the start of the cycle only from then on, and
\* never in a cycle that fails.
C17_PublishAfterAllFetched ==
  /\ pc \in AfterLoop => (listed /\ Len(fetched) = Len(projects))
  /\ (agg # start.agg \/ known_labelsets # start.known_labelsets) =>
       /\ listed /\ Len(fetched) = Len(projects)
       /\ pc \in (AfterLoop \ {"publish"}) \cup StatusBlock \cup {"sleep"}
       /\ pc \in StatusBlock \cup {"sleep"} => ok
  /\ (pc \in StatusBlock \cup {"sleep"} /\ ~ok) =>
       (agg = start.agg /\ known_labelsets = start.known_labelsets)

\* The aggregates and the known label sets have changed, after two fetches.
C17_Witness ==
  /\ pc = "cleanup"
  /\ Len(projects) >= 2 /\ Len(fetched) = Len(projects)
  /\ agg # start.agg
  /\ known_labelsets # start.known_labelsets

\* ---------------------------------------------------------------- the handlers
\* The status record as the cycle found it, and as the cycle leaves it.
StatusBefore == <<start.last_error_message, start.last_success_time>>
StatusAfter == IF ok THEN <<NoError, clock>> ELSE <<err_msg, start.last_success_time>>

\* C18: what a health read returns is the whole status record of before the
\* cycle's status update or, once the update is over, the whole record of
\* after it: never one field of each.
C18_HealthReadsWholeStatus ==
  health_pc = "reading" =>
    \/ HealthPayload = StatusBefore
    \/ pc = "sleep" /\ HealthPayload = StatusAfter

\* A health read holds the lock while the thread waits to record a success
\* that follows a failure.
C18_Witness ==
  /\ health_pc = "reading"
  /\ pc = "status" /\ ok
  /\ lock = "health"
  /\ start.last_error_message # NoError
  /\ HealthPayload = StatusBefore /\ HealthPayload # StatusAfter

\* C19: a scrape that starts once the first cycle has finished reads the up
\* flag and the error flag as complements of each other.
C19_FlagsComplementary ==
  (scrape.pc = "done" /\ scrape.after_first) => scrape.up + scrape.last_error = 1

\* ---------------------------------------------------------------- whole label tuples
\* C20: when a cycle has ended, failed or not, every label tuple has a series
\* in all of the configured metrics or in none of them.
C20_TupleInAllMetricsOrNone ==
  CycleDone =>
    \A l \in LabelSpace :
      \/ \A k \in Metrics : gauges[k][l] # NoSeries
      \/ \A k \in Metrics : gauges[k][l] = NoSeries

\* A cycle fails after it has removed the series of a renamed project and
\* written those of none or some of its projects.
C20_Witness ==
  /\ CycleFailed
  /\ \E l \in LabelSpace :
       /\ \A k \in Metrics : start.gauges[k][l] # NoSeries
       /\ \A k \in Metrics : gauges[k][l] = NoSeries
  /\ \E l \in LabelSpace : \A k \in Metrics : gauges[k][l] # NoSeries

====
